---- MODULE Spec2Model ----
(***************************************************************************)
(* State machine of the upload page frontend/app/page.tsx                  *)
(* (component BallSpeedAnalyzer): the six useState cells, the event        *)
(* handlers, and the asynchronous continuation of handleUpload (the two    *)
(* awaits: fetch, then response.json()).                                   *)
(*                                                                         *)
(* JavaScript objects are functions from the keys they own to values, so   *)
(* that an absent key, a key holding null and a key holding "" are three   *)
(* different things, and object spread is function override.               *)
(***************************************************************************)
EXTENDS Integers, Sequences, FiniteSets, TLC

VARIABLES
    file,          \* useState<File | null>            (page.tsx:31)
    loading,       \* useState<boolean>                (page.tsx:32)
    result,        \* useState<AnalysisResult | null>  (page.tsx:33)
    error,         \* useState<string | null>          (page.tsx:34)
    errorDetails,  \* useState<ErrorDetails | null>    (page.tsx:35)
    dragActive,    \* useState<boolean>                (page.tsx:36)
    calls,         \* the invocations of handleUpload that passed the !file test:
                   \* closure (file), position (pc), fetched response, and how often
                   \* lines 115 / 119 / 134 ran for it
    requests,      \* every request handed to fetch, in order
    shownFor,      \* history: the closure file of the invocation whose outcome
                   \* (line 115, 119 or 134) is what result / error now hold
    lastOp         \* history: the handler or continuation that ran last, with its input

vars == <<file, loading, result, error, errorDetails, dragActive,
          calls, requests, shownFor, lastOp>>

----------------------------------------------------------------------------
\* Bounds

\* handleUpload is invoked at most this many times in a run
MaxUploads == 3

----------------------------------------------------------------------------
\* Values

\* null of an object-typed cell (File | null, AnalysisResult | null, ...)
Null == [null |-> TRUE]

\* null of a string-typed cell or field (string | null)
NullStr == "<null>"

\* the value of reading a key an object does not own
Undefined == "<undefined>"

\* the File objects a change or drop event can carry
Files == { [name |-> "a.mp4"], [name |-> "b.mp4"] }

\* e.target.files?.[0] / e.dataTransfer.files[0]: a File, or nothing
EventFiles == Files \cup {Null}

\* e.type of the drag events bound to handleDrag (page.tsx:164-166)
DragTypes == {"dragenter", "dragover", "dragleave"}

\* setError argument of line 71
MsgSelectFile == "select-a-file"

\* the default of line 119 ('分析に失敗しました')
MsgAnalysisFailed == "analysis-failed"

\* setError argument of line 134
MsgNoConnection == "cannot-connect-to-server"

\* o[k] in JavaScript: undefined when o does not own k
Get(o, k) == IF k \in DOMAIN o THEN o[k] ELSE Undefined

\* truthiness of a string | null | undefined value
TruthyStr(v) == v \notin {Undefined, NullStr, ""}

\* truthiness of an optional boolean field
TruthyBool(o, k) == k \in DOMAIN o /\ o[k] = TRUE

\* a || b on strings
OrElse(a, b) == IF TruthyStr(a) THEN a ELSE b

\* JSON bodies with success = true
SuccessBodies ==
    { [success |-> TRUE, speed_kmh |-> 120, mitt_detected |-> TRUE,
       calibration_method |-> "mitt_auto"],
      [success |-> TRUE, speed_kmh |-> 120, mitt_detected |-> FALSE,
       calibration_method |-> "default_fallback", warning |-> "fallback-scale"],
      [success |-> TRUE, speed_kmh |-> 120, mitt_detected |-> FALSE,
       calibration_method |-> "default_fallback", warning |-> ""],
      [success |-> TRUE, speed_kmh |-> 120, mitt_detected |-> FALSE,
       calibration_method |-> "default_fallback", warning |-> NullStr],
      [success |-> TRUE, speed_kmh |-> 120, mitt_detected |-> FALSE,
       calibration_method |-> "default_fallback"] }

\* JSON bodies with success = false
FailureBodies ==
    { [success |-> FALSE, message |-> "no-ball-detected"],
      [success |-> FALSE, message |-> ""],
      [success |-> FALSE],
      [success |-> FALSE, message |-> "no-ball-detected", speed_kmh |-> 120],
      [success |-> FALSE, message |-> "no-ball-detected", type |-> "detection"] }

Bodies == SuccessBodies \cup FailureBodies

\* what fetch resolves to: an HTTP status and a body that parses as JSON to an
\* object, parses to null (data = Null), or does not parse (json = FALSE)
Responses ==
    { [status |-> s, json |-> TRUE, data |-> b] : s \in {200, 500}, b \in Bodies \cup {Null} }
    \cup { [status |-> s, json |-> FALSE, data |-> Null] : s \in {200, 500} }

\* the Error values the catch block can receive
FetchError == [name |-> "TypeError", message |-> "Failed to fetch"]
ParseError == [name |-> "SyntaxError", message |-> "Unexpected token"]
NullDataError == [name |-> "TypeError", message |-> "Cannot read properties of null"]

----------------------------------------------------------------------------
\* Rendering (the JSX of lines 148-378)

\* mutant of ButtonDisabled: the loading test is forgotten (disabled={!file})
ButtonDisabledIgnoresLoading == file = Null

\* disabled={!file || loading}
ButtonDisabled == file = Null \/ loading

\* {error && ...}
ErrorBoxVisible == TruthyStr(error)

\* {result && ...}
ResultBoxVisible == result # Null

\* {result.warning && ...}
WarningBoxVisible == ResultBoxVisible /\ TruthyStr(Get(result, "warning"))

\* {!result.mitt_detected && ...}
HintBoxVisible == ResultBoxVisible /\ ~TruthyBool(result, "mitt_detected")

----------------------------------------------------------------------------
Init ==
    /\ file = Null
    /\ loading = FALSE
    /\ result = Null
    /\ error = NullStr
    /\ errorDetails = Null
    /\ dragActive = FALSE
    /\ calls = <<>>
    /\ requests = <<>>
    /\ shownFor = Null
    /\ lastOp = [op |-> "init"]

\* the values the state cells hold (lines 31-36) and the shape of the
\* bookkeeping of handleUpload's invocations
TypeOK ==
    /\ file \in Files \cup {Null}
    /\ loading \in BOOLEAN
    /\ result \in SuccessBodies \cup {Null}
    /\ error \in {NullStr, MsgAnalysisFailed, MsgNoConnection}
                    \cup { b.message : b \in { x \in FailureBodies : "message" \in DOMAIN x } }
    /\ errorDetails = Null \/ "type" \in DOMAIN errorDetails
    /\ dragActive \in BOOLEAN
    /\ Len(calls) <= MaxUploads
    /\ \A i \in DOMAIN calls :
          /\ calls[i].file \in Files
          /\ calls[i].pc \in {"fetch", "json", "done"}
          /\ calls[i].response \in Responses \cup {Null}
          /\ calls[i].pc = "json" <=> calls[i].response # Null
    /\ shownFor \in Files \cup {Null}

----------------------------------------------------------------------------
\* Event handlers

\* handleFileChange (lines 38-45); selectedFile = e.target.files?.[0]
handleFileChange(selectedFile) ==
    /\ IF selectedFile # Null
       THEN /\ file' = selectedFile
            /\ result' = Null
            /\ error' = NullStr
            /\ shownFor' = Null
       ELSE UNCHANGED <<file, result, error, shownFor>>
    /\ UNCHANGED <<loading, errorDetails, dragActive, calls, requests>>
    /\ lastOp' = [op |-> "handleFileChange", file |-> selectedFile]

\* handleDrag (lines 47-55)
handleDrag(type) ==
    /\ IF type \in {"dragenter", "dragover"}
       THEN dragActive' = TRUE
       ELSE IF type = "dragleave"
            THEN dragActive' = FALSE
            ELSE UNCHANGED dragActive
    /\ UNCHANGED <<file, loading, result, error, errorDetails, calls, requests, shownFor>>
    /\ lastOp' = [op |-> "handleDrag", type |-> type]

\* mutant of handleDrop: setError(null) is forgotten
handleDropKeepsError(dropped) ==
    /\ dragActive' = FALSE
    /\ IF dropped # Null
       THEN /\ file' = dropped
            /\ result' = Null
            /\ UNCHANGED <<error, shownFor>>
       ELSE UNCHANGED <<file, result, error, shownFor>>
    /\ UNCHANGED <<loading, errorDetails, calls, requests>>
    /\ lastOp' = [op |-> "handleDrop", file |-> dropped]

\* handleDrop (lines 57-67); dropped = e.dataTransfer.files[0]
handleDrop(dropped) ==
    /\ dragActive' = FALSE
    /\ IF dropped # Null
       THEN /\ file' = dropped
            /\ result' = Null
            /\ error' = NullStr
            /\ shownFor' = Null
       ELSE UNCHANGED <<file, result, error, shownFor>>
    /\ UNCHANGED <<loading, errorDetails, calls, requests>>
    /\ lastOp' = [op |-> "handleDrop", file |-> dropped]

\* mutant of FormData: a slow-motion factor is appended as a second field
FormDataWithSlowmo(f) ==
    << [name |-> "file", value |-> f], [name |-> "slowmo_factor", value |-> "8"] >>

\* new FormData(); formData.append('file', file)  (lines 86-87)
FormData(f) == << [name |-> "file", value |-> f] >>

\* the requests one call of fetch(`${apiUrl}/api/analyze`, {method: 'POST', body})
\* puts on the wire (lines 94-97)
Fetch(formData) == << [method |-> "POST", path |-> "/api/analyze", body |-> formData] >>

\* handleUpload up to its first await (lines 69-97)
handleUpload ==
    IF file = Null
    THEN /\ error' = MsgSelectFile
         /\ shownFor' = Null
         /\ UNCHANGED <<file, loading, result, errorDetails, dragActive, calls, requests>>
         /\ lastOp' = [op |-> "handleUpload", call |-> 0]
    ELSE /\ loading' = TRUE
         /\ error' = NullStr
         /\ errorDetails' = Null
         /\ result' = Null
         /\ shownFor' = Null
         /\ requests' = requests \o Fetch(FormData(file))
         /\ calls' = Append(calls, [file |-> file, pc |-> "fetch", response |-> Null,
                                    nResult |-> 0, nError |-> 0])
         /\ UNCHANGED <<file, dragActive>>
         /\ lastOp' = [op |-> "handleUpload", call |-> Len(calls) + 1]

----------------------------------------------------------------------------
\* The continuation of handleUpload for invocation i

\* mutant of TryBlock: the failure branch also stores the body as the result
TryBlockStoresFailure(i, data) ==
    IF data.success
    THEN /\ result' = data
         /\ UNCHANGED <<error, errorDetails>>
         /\ calls' = [calls EXCEPT ![i].pc = "done", ![i].response = Null,
                                   ![i].nResult = @ + 1]
    ELSE /\ error' = OrElse(Get(data, "message"), MsgAnalysisFailed)
         /\ errorDetails' = data @@ [message |-> Get(data, "message"), type |-> "api_error"]
         /\ result' = data
         /\ calls' = [calls EXCEPT ![i].pc = "done", ![i].response = Null,
                                   ![i].nResult = @ + 1, ![i].nError = @ + 1]

\* mutant of TryBlock: a success without a detected mitt is treated as a failure
\* (if (data.success && data.mitt_detected))
TryBlockRequiresMitt(i, data) ==
    IF data.success /\ TruthyBool(data, "mitt_detected")
    THEN /\ result' = data
         /\ UNCHANGED <<error, errorDetails>>
         /\ calls' = [calls EXCEPT ![i].pc = "done", ![i].response = Null,
                                   ![i].nResult = @ + 1]
    ELSE /\ error' = OrElse(Get(data, "message"), MsgAnalysisFailed)
         /\ errorDetails' = data @@ [message |-> Get(data, "message"), type |-> "api_error"]
         /\ UNCHANGED result
         /\ calls' = [calls EXCEPT ![i].pc = "done", ![i].response = Null,
                                   ![i].nError = @ + 1]

\* lines 107-125, with data the parsed body
TryBlock(i, data) ==
    IF data.success
    THEN /\ result' = data
         /\ UNCHANGED <<error, errorDetails>>
         /\ calls' = [calls EXCEPT ![i].pc = "done", ![i].response = Null,
                                   ![i].nResult = @ + 1]
    ELSE /\ error' = OrElse(Get(data, "message"), MsgAnalysisFailed)
         \* {message: data.message, type: 'api_error', ...data}: data's keys win
         /\ errorDetails' = data @@ [message |-> Get(data, "message"), type |-> "api_error"]
         /\ UNCHANGED result
         /\ calls' = [calls EXCEPT ![i].pc = "done", ![i].response = Null,
                                   ![i].nError = @ + 1]

\* mutant of CatchBlock: the request is sent again after an error
CatchBlockRetries(i, err) ==
    /\ error' = MsgNoConnection
    /\ errorDetails' = [name |-> err.name, message |-> err.message, type |-> "network_error"]
    /\ UNCHANGED result
    /\ requests' = requests \o Fetch(FormData(calls[i].file))
    /\ calls' = [calls EXCEPT ![i].pc = "done", ![i].response = Null,
                              ![i].nError = @ + 1]

\* lines 126-139, with err the value thrown
CatchBlock(i, err) ==
    /\ error' = MsgNoConnection
    /\ errorDetails' = [name |-> err.name, message |-> err.message, type |-> "network_error"]
    /\ UNCHANGED <<result, requests>>
    /\ calls' = [calls EXCEPT ![i].pc = "done", ![i].response = Null,
                              ![i].nError = @ + 1]

\* lines 140-145
FinallyBlock == loading' = FALSE

----------------------------------------------------------------------------
\* Actions

\* onChange of the file input (line 172)
ChangeEvent == \E f \in EventFiles : handleFileChange(f)

\* onDragEnter / onDragLeave / onDragOver (lines 164-166)
DragEvent == \E t \in DragTypes : handleDrag(t)

\* onDrop (line 167)
DropEvent == \E f \in EventFiles : handleDrop(f)

\* onClick of the button (lines 200-202): a disabled button fires no click
ClickUpload ==
    /\ ~ButtonDisabled
    /\ Len(calls) < MaxUploads
    /\ handleUpload

\* await fetch(...) resolves with a response (line 94)
FetchResolves ==
    \E i \in DOMAIN calls, r \in Responses :
        /\ calls[i].pc = "fetch"
        /\ calls' = [calls EXCEPT ![i].pc = "json", ![i].response = r]
        /\ UNCHANGED <<file, loading, result, error, errorDetails, dragActive,
                       requests, shownFor>>
        /\ lastOp' = [op |-> "fetchResolves", call |-> i]

\* await fetch(...) rejects: catch, finally (lines 94, 126-145)
FetchRejects ==
    \E i \in DOMAIN calls :
        /\ calls[i].pc = "fetch"
        /\ CatchBlock(i, FetchError)
        /\ FinallyBlock
        /\ shownFor' = calls[i].file
        /\ UNCHANGED <<file, dragActive>>
        /\ lastOp' = [op |-> "fetchRejects", call |-> i]

\* await response.json() resolves with data: try body, finally (lines 103-125, 140-145);
\* data = null makes data.success throw, which the catch block receives
JsonResolves ==
    \E i \in DOMAIN calls :
        /\ calls[i].pc = "json"
        /\ calls[i].response.json
        /\ LET data == calls[i].response.data
           IN  /\ IF data = Null
                  THEN CatchBlock(i, NullDataError)
                  ELSE TryBlock(i, data) /\ UNCHANGED requests
               /\ lastOp' = [op |-> "jsonResolves", call |-> i,
                             status |-> calls[i].response.status, data |-> data]
        /\ FinallyBlock
        /\ shownFor' = calls[i].file
        /\ UNCHANGED <<file, dragActive>>

\* await response.json() rejects: catch, finally (lines 103, 126-145)
JsonRejects ==
    \E i \in DOMAIN calls :
        /\ calls[i].pc = "json"
        /\ ~calls[i].response.json
        /\ CatchBlock(i, ParseError)
        /\ FinallyBlock
        /\ shownFor' = calls[i].file
        /\ UNCHANGED <<file, dragActive>>
        /\ lastOp' = [op |-> "jsonRejects", call |-> i,
                      status |-> calls[i].response.status]

Next ==
    \/ ChangeEvent
    \/ DragEvent
    \/ DropEvent
    \/ ClickUpload
    \/ FetchResolves
    \/ FetchRejects
    \/ JsonResolves
    \/ JsonRejects

Spec == Init /\ [][Next]_vars

----------------------------------------------------------------------------
\* Properties

\* the continuations that end an invocation (they run the finally block)
SettleOps == {"fetchRejects", "jsonResolves", "jsonRejects"}

\* the invocations whose fetch has not settled
InFlight == { i \in DOMAIN calls : calls[i].pc # "done" }

\* C1: every invocation of handleUpload with a file gets exactly one outcome.
\* While its request is in flight neither line 115 nor lines 119/134 has run for
\* it and result and error are both null; once it has settled exactly one of
\* them has run, exactly once; and in the state the settling step leaves,
\* exactly one of result and error is set and loading is false.
C1_ExactlyOneOutcome ==
    /\ \A i \in DOMAIN calls :
          IF calls[i].pc = "done"
          THEN calls[i].nResult + calls[i].nError = 1
          ELSE /\ calls[i].nResult = 0
               /\ calls[i].nError = 0
               /\ result = Null
               /\ error = NullStr
    /\ lastOp.op \in SettleOps =>
          /\ ~loading
          /\ (result # Null) # (error # NullStr)
          /\ (result # Null) <=> (calls[lastOp.call].nResult = 1)

\* C1 witness: one invocation has settled with an error, a later one with a
\* result, and a third is in flight
C1_Witness ==
    /\ Len(calls) >= 3
    /\ calls[1].pc = "done" /\ calls[1].nError = 1
    /\ calls[2].pc = "done" /\ calls[2].nResult = 1
    /\ calls[3].pc = "json"

\* C2 (as claimed): after a response whose body has success = false, result is
\* null, error is a non-empty string (the body's message, or the default when
\* the message is absent or empty) and errorDetails has type 'api_error',
\* whatever the HTTP status.
C2_FailureIsApiError ==
    (lastOp.op = "jsonResolves" /\ lastOp.data # Null /\ ~lastOp.data.success) =>
        /\ result = Null
        /\ TruthyStr(error)
        /\ error = IF TruthyStr(Get(lastOp.data, "message"))
                   THEN lastOp.data.message
                   ELSE MsgAnalysisFailed
        /\ errorDetails # Null
        /\ Get(errorDetails, "type") = "api_error"

\* C3: no automatic retries. The requests sent are as many as the invocations
\* of handleUpload with a file selected, and a step sends a request only when
\* it is such an invocation, which sends exactly one.
C3_NoRetries ==
    /\ [](Len(requests) = Len(calls))
    /\ [][Len(requests') # Len(requests) =>
             /\ lastOp'.op = "handleUpload"
             /\ Len(requests') = Len(requests) + 1]_vars

\* C3 witness: two invocations ended in a failure (one a network error, one a
\* success = false body) and exactly two requests have been sent
C3_Witness ==
    /\ Len(calls) = 2
    /\ Len(requests) = 2
    /\ calls[1].pc = "done" /\ calls[1].nError = 1
    /\ calls[2].pc = "done" /\ calls[2].nError = 1
    /\ lastOp.op = "fetchRejects"

\* C4: every request is one POST to /api/analyze whose multipart body has
\* exactly one field, 'file', holding the file selected when handleUpload was
\* invoked.
C4_SingleFileField ==
    [][Len(requests') > Len(requests) =>
          requests' = Append(requests,
                             [method |-> "POST", path |-> "/api/analyze",
                              body |-> << [name |-> "file", value |-> file] >>])]_vars

\* C4 witness: a request was sent for one file and another file is selected now
C4_Witness ==
    /\ Len(requests) >= 1
    /\ requests[1].body[1].value \in Files
    /\ file # requests[1].body[1].value

\* C5: a success with mitt_detected = false is shown as a result, not as an
\* error: in the state its settling step leaves, result is the body, error is
\* null, the hint box is visible, and the warning box is visible when the
\* body's warning is non-empty.
C5_DegradedSuccessShown ==
    (/\ lastOp.op = "jsonResolves"
     /\ lastOp.data # Null
     /\ lastOp.data.success
     /\ Get(lastOp.data, "mitt_detected") = FALSE) =>
        /\ result = lastOp.data
        /\ error = NullStr
        /\ ~ErrorBoxVisible
        /\ HintBoxVisible
        /\ TruthyStr(Get(lastOp.data, "warning")) => WarningBoxVisible

\* C5 witness: a degraded success with a warning text has just settled and
\* both boxes are shown
C5_Witness ==
    /\ lastOp.op = "jsonResolves"
    /\ lastOp.data # Null
    /\ lastOp.data.success
    /\ Get(lastOp.data, "mitt_detected") = FALSE
    /\ TruthyStr(Get(lastOp.data, "warning"))
    /\ WarningBoxVisible
    /\ HintBoxVisible

\* C6: at most one request is in flight, and loading is true exactly while one
\* is. handleUpload runs only with a file selected and loading false; loading
\* becomes true only in handleUpload, in the step that sends the request, and
\* false only in a step that settles the request in flight.
C6_AtMostOneInFlight ==
    /\ [](Cardinality(InFlight) <= 1 /\ (loading <=> InFlight # {}))
    /\ [][/\ lastOp'.op = "handleUpload" => (file # Null /\ ~loading)
          /\ (~loading /\ loading') =>
                (lastOp'.op = "handleUpload" /\ Len(requests') = Len(requests) + 1)
          /\ (loading /\ ~loading') =>
                /\ lastOp'.op \in SettleOps
                /\ lastOp'.call \in InFlight
                /\ calls'[lastOp'.call].pc = "done"]_vars

\* C6 witness: a second request is in flight after the first has settled, and
\* the button is disabled
C6_Witness ==
    /\ Len(calls) = 2
    /\ calls[1].pc = "done"
    /\ calls[2].pc = "fetch"
    /\ loading
    /\ ButtonDisabled

\* C7: a change or drop event with a file sets file to it, clears result and
\* error and leaves loading and errorDetails unchanged; one without a file
\* changes nothing but dragActive, which a drop sets to false; and file, once
\* not null, is never null again.
C7_SelectClearsResult ==
    [][/\ (lastOp'.op \in {"handleFileChange", "handleDrop"} /\ lastOp'.file # Null) =>
             /\ file' = lastOp'.file
             /\ result' = Null
             /\ error' = NullStr
             /\ loading' = loading
             /\ errorDetails' = errorDetails
       /\ (lastOp'.op \in {"handleFileChange", "handleDrop"} /\ lastOp'.file = Null) =>
             UNCHANGED <<file, loading, result, error, errorDetails>>
       /\ lastOp'.op = "handleFileChange" => dragActive' = dragActive
       /\ lastOp'.op = "handleDrop" => dragActive' = FALSE
       /\ file # Null => file' # Null]_vars

\* C7 witness: a file was dropped after a failed upload: the error is cleared,
\* the error details of that upload are still held
C7_Witness ==
    /\ lastOp.op = "handleDrop"
    /\ lastOp.file # Null
    /\ file = lastOp.file
    /\ error = NullStr
    /\ result = Null
    /\ errorDetails # Null

\* C8 (as claimed): a result or upload error on display was produced by the
\* upload of the file now selected.
C8_ShownForSelectedFile ==
    (result # Null \/ error # NullStr) => shownFor = file

====
